---- MODULE Spec2Model ----
(***************************************************************************)
(* The session engine of direction-detectives (src/App.tsx): level         *)
(* generation, the status state machine, input validation, the delayed     *)
(* step-advance and success transitions, step narration and replay.        *)
(*                                                                         *)
(* React state is one variable per useState cell.  Every handler is one    *)
(* action; the part of an async function after an await is a separate      *)
(* action that runs when the awaited operation finishes.  Timer callbacks  *)
(* and the continuations of async functions keep the values their closure  *)
(* captured when they were created; those values are stored in the pending *)
(* operation.                                                              *)
(*                                                                         *)
(* Spec is the session engine with the preload and the narration as whole  *)
(* operations.  SpecAudio and SpecAudioFair follow the narration cue by    *)
(* cue and the availability probe listener by listener; SpecReplay adds    *)
(* the replay, SpecCues the Audio elements that outlive their safety       *)
(* timer.  SpecGen runs the path generator draw by draw, SpecPlay plays    *)
(* the generated path through the engine, and SpecMount mounts the         *)
(* component with any number in the level cell.                            *)
(***************************************************************************)
EXTENDS Integers, Sequences, FiniteSets, TLC

VARIABLES
    level,                  \* useState(1)                      App.tsx:7
    status,                 \* useState(GameStatus.START)       App.tsx:8
    playerPos,              \* useState({x:0,z:0,rotation:0})   App.tsx:9
    targetPos,              \* useState({x:0,z:-GRID_SIZE})     App.tsx:10, coordinates doubled
    fullPath,               \* useState([])                     App.tsx:13
    currentStep,            \* useState(0)                      App.tsx:14
    commandsForCurrentStep, \* useState([])                     App.tsx:15
    movesMadeInStep,        \* useState(0)                      App.tsx:16
    isPreloadingLevel,      \* useState(true)                   App.tsx:17
    isReplaying,            \* useState(false)                  App.tsx:18
    effectPending,          \* the [level] effect of App.tsx:130 has not yet run for this level
    pending,                \* timers and awaited operations in flight, in creation order
    event,                  \* history: "input" when a direction input produced this state
    fed,                    \* history: inputs given in MOVING so far follow fullPath (count), or -1
    failed,                 \* history: status became FAIL in this attempt
    audioAvailability,      \* useRef({STRAIGHT:false,LEFT:false,RIGHT:false})  App.tsx:20
    lateListeners,          \* directions with a canplaythrough listener left by a finished preload
    marked,                 \* history: how each direction was last marked unavailable in this attempt
    gen,                    \* the locals of the loop of generateLevel, one iteration at a time
    catalog,                \* LEVEL_CONFIGS as the running program reads it
    abandoned               \* per direction: an Audio element left playing by the safety timer

vars == << level, status, playerPos, targetPos, fullPath, currentStep,
           commandsForCurrentStep, movesMadeInStep, isPreloadingLevel, isReplaying,
           effectPending, pending, event, fed, failed,
           audioAvailability, lateListeners, marked, gen, catalog, abandoned >>

\* The state of the narration player and of the availability probe.
audioVars == << audioAvailability, lateListeners, marked >>

(***************************************************************************)
(* Vocabulary and constants (src/types.ts, constants module).              *)
(***************************************************************************)
Direction == {"STRAIGHT", "LEFT", "RIGHT"}

GameStatus == {"START", "LISTENING", "MOVING", "SUCCESS", "FAIL"}

GRID_SIZE == 5

TURN_ANGLE == 90

\* setTimeout delays of App.tsx, in milliseconds.
SUCCESS_DELAY == 400

STEP_DELAY == 600

CUE_PAUSE == 400

PRELOAD_MIN == 500

\* Last level id of nextLevel's comparison `level < 3`.
LAST_LEVEL == 3

\* Number of steps of the first level; the catalog has 8 and the model keeps
\* the catalog's differences between the levels (8, 10, 12).
BaseSteps == 2

\* Math.random is modelled as a source that repeats a block of DrawPeriod
\* draws; the block is chosen anew at every generation.
DrawPeriod == 2

\* Most timers and awaited operations in flight at once.
MaxPending == 2

LEVEL_CONFIGS ==
    << [id |-> 1, commandCountPerStep |-> 1, totalSteps |-> BaseSteps],
       [id |-> 2, commandCountPerStep |-> 2, totalSteps |-> BaseSteps + 2],
       [id |-> 3, commandCountPerStep |-> 3, totalSteps |-> BaseSteps + 4] >>

\* The index of the first config whose id is lvl, 0 when there is none:
\* LEVEL_CONFIGS.find(c => c.id === lvl) returns that config, or undefined.
FindIndex(lvl) ==
    IF \E i \in 1..Len(catalog) : catalog[i].id = lvl
    THEN CHOOSE i \in 1..Len(catalog) :
            /\ catalog[i].id = lvl
            /\ \A j \in 1..(i - 1) : catalog[j].id # lvl
    ELSE 0

\* `LEVEL_CONFIGS.find(c => c.id === level)!` of startStep and executeMove.
FindConfig(lvl) == catalog[FindIndex(lvl)]

\* `LEVEL_CONFIGS.find(c => c.id === lvl) || LEVEL_CONFIGS[0]` of generateLevel.
ConfigOrFirst(lvl) ==
    IF FindIndex(lvl) = 0 THEN catalog[1] ELSE catalog[FindIndex(lvl)]

\* The draw table of generateLevel: STRAIGHT holds two of the four places.
Possible == << "STRAIGHT", "STRAIGHT", "LEFT", "RIGHT" >>

DrawBlocks == [1..DrawPeriod -> 0..3]

\* Array.prototype.slice(start, end) on a 1-based sequence, for 0 <= start <= end.
Slice(s, start, end) ==
    LET lo == IF start > Len(s) THEN Len(s) ELSE start
        hi == IF end > Len(s) THEN Len(s) ELSE end
    IN  IF hi <= lo THEN << >> ELSE SubSeq(s, lo + 1, hi)

(***************************************************************************)
(* Movement.  Rotations are multiples of TURN_ANGLE, for which sine and    *)
(* cosine are taken as exactly 0, 1 or -1.                                 *)
(***************************************************************************)
\* The sine taken for the cosine.
Sin_AsCos(deg) ==
    LET d == deg % 360
    IN  IF d = 0 THEN 1 ELSE IF d = 180 THEN -1 ELSE 0

Sin(deg) ==
    LET d == deg % 360
    IN  IF d = 90 THEN 1 ELSE IF d = 270 THEN -1 ELSE 0

Cos(deg) ==
    LET d == deg % 360
    IN  IF d = 0 THEN 1 ELSE IF d = 180 THEN -1 ELSE 0

\* The updater with the rotation brought back into [0, 360).
MovePose_Normalized(prev, dir) ==
    IF dir = "STRAIGHT"
    THEN [prev EXCEPT !.x = prev.x - Sin(prev.rotation) * GRID_SIZE,
                      !.z = prev.z - Cos(prev.rotation) * GRID_SIZE]
    ELSE IF dir = "LEFT"
    THEN [prev EXCEPT !.rotation = (prev.rotation + TURN_ANGLE) % 360]
    ELSE [prev EXCEPT !.rotation = (prev.rotation - TURN_ANGLE) % 360]

\* The updater passed to setPlayerPos in executeMove.
MovePose(prev, dir) ==
    IF dir = "STRAIGHT"
    THEN [prev EXCEPT !.x = prev.x - Sin(prev.rotation) * GRID_SIZE,
                      !.z = prev.z - Cos(prev.rotation) * GRID_SIZE]
    ELSE IF dir = "LEFT"
    THEN [prev EXCEPT !.rotation = prev.rotation + TURN_ANGLE]
    ELSE [prev EXCEPT !.rotation = prev.rotation - TURN_ANGLE]

Origin == [x |-> 0, z |-> 0, rotation |-> 0]

\* The path drawn by the loop of generateLevel from a block of draws.
DrawPath(n, block) ==
    [i \in 1..n |-> Possible[block[((i - 1) % DrawPeriod) + 1] + 1]]

\* The simulation with the two turns exchanged.
SimStep_TurnsExchanged(sim, move) ==
    IF move = "STRAIGHT"
    THEN [sim EXCEPT !.x = sim.x - Sin(sim.rotation) * GRID_SIZE,
                     !.z = sim.z - Cos(sim.rotation) * GRID_SIZE]
    ELSE IF move = "LEFT"
    THEN [sim EXCEPT !.rotation = sim.rotation - TURN_ANGLE]
    ELSE [sim EXCEPT !.rotation = sim.rotation + TURN_ANGLE]

\* One iteration's update of simX, simZ, simRot (App.tsx:110-115).
SimStep(sim, move) ==
    IF move = "STRAIGHT"
    THEN [sim EXCEPT !.x = sim.x - Sin(sim.rotation) * GRID_SIZE,
                     !.z = sim.z - Cos(sim.rotation) * GRID_SIZE]
    ELSE IF move = "LEFT"
    THEN [sim EXCEPT !.rotation = sim.rotation + TURN_ANGLE]
    ELSE [sim EXCEPT !.rotation = sim.rotation - TURN_ANGLE]

\* The simulation inside the loop of generateLevel: simX, simZ, simRot after
\* the first i moves of path.  The state after i - 1 moves is bound as a
\* value, so that it is computed once.
RECURSIVE Simulate(_, _)
Simulate(path, i) ==
    IF i = 0 THEN [x |-> 0, z |-> 0, rotation |-> 0]
    ELSE CHOOSE next \in { SimStep(sim, path[i]) : sim \in {Simulate(path, i - 1)} } : TRUE

\* Math.round(a / b) for an integer a and b > 0: halves round up.
RoundDiv(a, b) == (2 * a + b) \div (2 * b)

\* The goal without the offset to the centre of the cell.
GoalAt_Vertex(simX, simZ) ==
    LET finalX == RoundDiv(simX, GRID_SIZE) * GRID_SIZE
        finalZ == RoundDiv(simZ, GRID_SIZE) * GRID_SIZE
    IN  [x2 |-> 2 * finalX, z2 |-> 2 * finalZ]

\* The goal computed from simX and simZ at the end of the loop
\* (App.tsx:119-121); both fields are stored doubled, 2.5 doubled is 5.
GoalAt(simX, simZ) ==
    LET finalX == RoundDiv(simX, GRID_SIZE) * GRID_SIZE
        finalZ == RoundDiv(simZ, GRID_SIZE) * GRID_SIZE
    IN  [x2 |-> 2 * finalX + 5, z2 |-> 2 * finalZ + 5]

\* The goal of a whole path.
GoalOf(path) ==
    LET sim == Simulate(path, Len(path))
    IN  GoalAt(sim.x, sim.z)

(***************************************************************************)
(* Pending operations.  kind is "success" (the timer of App.tsx:173),      *)
(* "step" (the timer of App.tsx:177), "preload" (the await of App.tsx:126),*)
(* "narration" (the await of App.tsx:144) or "replay" (the await of        *)
(* App.tsx:200).  A step timer holds what its startStep closure captured.  *)
(* An operation that awaits playSequence carries the progress of the       *)
(* sequence in play; a preload carries the state of its three probes in    *)
(* probe.                                                                  *)
(***************************************************************************)
\* No sequence is played by this operation.
NoPlay ==
    [idx |-> 0, phase |-> "none", available |-> FALSE, errored |-> FALSE,
     spoken |-> FALSE]

\* playAudioWithFallback without the check of audioAvailability.
playAudioWithFallback_AlwaysAudio(direction, k) ==
    [idx |-> k, phase |-> "audio", available |-> audioAvailability[direction],
     errored |-> FALSE, spoken |-> FALSE]

\* playAudioWithFallback(direction) up to its first wait, as cue number k of a
\* sequence (App.tsx:39-68): speakFallback at once when the direction is not
\* available, otherwise a new Audio is played.  available, errored and spoken
\* record what has happened to the cue.
playAudioWithFallback(direction, k) ==
    IF ~audioAvailability[direction]
    THEN [idx |-> k, phase |-> "speech", available |-> FALSE, errored |-> FALSE,
          spoken |-> TRUE]
    ELSE [idx |-> k, phase |-> "audio", available |-> TRUE, errored |-> FALSE,
          spoken |-> FALSE]

\* playSequence(commands) up to its first wait (App.tsx:72-77): the loop body
\* runs for the first command; with no command the sequence is over at once.
playSequence(commands) ==
    IF commands = << >>
    THEN [NoPlay EXCEPT !.phase = "done"]
    ELSE playAudioWithFallback(commands[1], 1)

\* No probe belongs to this operation.
NoProbe == [d \in Direction |-> "none"]

\* checkAudioFiles up to its await (App.tsx:79-94): one probe per direction,
\* each with its timer and its two listeners.
checkAudioFiles == [d \in Direction |-> "loading"]

Op(kind, stepIdx, lvl, path, pre, cmds) ==
    [kind |-> kind, stepIdx |-> stepIdx, level |-> lvl, path |-> path,
     pre |-> pre, cmds |-> cmds,
     play |-> IF kind \in {"narration", "replay"} THEN playSequence(cmds) ELSE NoPlay,
     probe |-> IF kind = "preload" THEN checkAudioFiles ELSE NoProbe]

SuccessTimer == Op("success", 0, 0, << >>, FALSE, << >>)

PreloadOp == Op("preload", 0, 0, << >>, FALSE, << >>)

IsTimer(op) == op.kind \in {"success", "step"}

\* The delay of a timer.
Delay(op) == IF op.kind = "success" THEN SUCCESS_DELAY ELSE STEP_DELAY

\* The least time an awaited operation takes: the minimum display time of the
\* preload, one inter-cue pause per cue for playSequence.
MinDuration(op) ==
    IF op.kind = "preload" THEN PRELOAD_MIN
    ELSE IF IsTimer(op) THEN Delay(op)
    ELSE CUE_PAUSE * Len(op.cmds)

\* pending[i] can finish now: no timer created before it is still pending
\* that must have fired by the earliest time pending[i] can finish.
CanFinish(i) ==
    \A j \in 1..(i - 1) :
        ~(IsTimer(pending[j]) /\ Delay(pending[j]) <= MinDuration(pending[i]))

Remove(s, i) == SubSeq(s, 1, i - 1) \o SubSeq(s, i + 1, Len(s))

Room == Len(pending) < MaxPending

\* The loop of generateLevel is not running.
GenIdle ==
    [running |-> FALSE,
     config |-> [id |-> 0, commandCountPerStep |-> 0, totalSteps |-> 0],
     i |-> 0, path |-> << >>, sim |-> [x |-> 0, z |-> 0, rotation |-> 0]]

(***************************************************************************)
(* Initial state: the first render, before the mount effect has run.       *)
(***************************************************************************)
Init ==
    /\ level = 1
    /\ status = "START"
    /\ playerPos = Origin
    /\ targetPos = [x2 |-> 0, z2 |-> -2 * GRID_SIZE]
    /\ fullPath = << >>
    /\ currentStep = 0
    /\ commandsForCurrentStep = << >>
    /\ movesMadeInStep = 0
    /\ isPreloadingLevel = TRUE
    /\ isReplaying = FALSE
    /\ effectPending = TRUE
    /\ pending = << >>
    /\ event = "init"
    /\ fed = 0
    /\ failed = FALSE
    /\ audioAvailability = [d \in Direction |-> FALSE]
    /\ lateListeners = {}
    /\ marked = [d \in Direction |-> "no"]
    /\ gen = GenIdle
    /\ catalog = LEVEL_CONFIGS
    /\ abandoned = [d \in Direction |-> "none"]

(***************************************************************************)
(* generateLevel(lvl), up to its await (App.tsx:97-126).                   *)
(***************************************************************************)
generateLevel(lvl, block) ==
    LET config == ConfigOrFirst(lvl)
        totalMovesNeeded == config.totalSteps * config.commandCountPerStep
        path == DrawPath(totalMovesNeeded, block)
    IN  /\ isPreloadingLevel' = TRUE
        /\ status' = "START"
        /\ fullPath' = path
        /\ targetPos' = GoalOf(path)
        /\ playerPos' = Origin
        /\ currentStep' = 0
        /\ movesMadeInStep' = 0
        /\ pending' = Append(pending, PreloadOp)
        /\ fed' = 0
        /\ failed' = FALSE
        /\ UNCHANGED << level, commandsForCurrentStep, isReplaying >>

\* useEffect(() => { generateLevel(level); }, [level, generateLevel]), with
\* the draws of the generation taken from blocks.
LevelEffectFrom(blocks) ==
    /\ effectPending
    /\ Room
    /\ \E block \in blocks : generateLevel(level, block)
    /\ effectPending' = FALSE
    /\ event' = "other"

LevelEffect == LevelEffectFrom(DrawBlocks)

\* The RETRY button, shown while status is FAIL (App.tsx:324-329).
ClickRetry ==
    /\ ~effectPending
    /\ status = "FAIL"
    /\ Room
    /\ \E block \in DrawBlocks : generateLevel(level, block)
    /\ event' = "other"
    /\ UNCHANGED effectPending

\* The rest of generateLevel after its await: setIsPreloadingLevel(false).
PreloadDone ==
    /\ ~effectPending
    /\ \E i \in 1..Len(pending) :
        /\ pending[i].kind = "preload"
        /\ CanFinish(i)
        /\ pending' = Remove(pending, i)
    /\ isPreloadingLevel' = FALSE
    /\ event' = "other"
    /\ UNCHANGED << level, status, playerPos, targetPos, fullPath, currentStep,
                    commandsForCurrentStep, movesMadeInStep, isReplaying,
                    effectPending, fed, failed >>

\* startStep without its setMovesMadeInStep(0).
startStep_NoReset(stepIdx, lvl, path, pre, q) ==
    IF pre
    THEN /\ pending' = q
         /\ UNCHANGED << commandsForCurrentStep, movesMadeInStep, status >>
    ELSE LET config == FindConfig(lvl)
             startIndex == stepIdx * config.commandCountPerStep
             stepCommands == Slice(path, startIndex, startIndex + config.commandCountPerStep)
         IN  /\ commandsForCurrentStep' = stepCommands
             /\ UNCHANGED movesMadeInStep
             /\ status' = "LISTENING"
             /\ pending' = Append(q, Op("narration", stepIdx, lvl, path, pre, stepCommands))

(***************************************************************************)
(* startStep(stepIdx) of a closure that captured lvl, path and pre         *)
(* (level, fullPath, isPreloadingLevel), up to its await (App.tsx:132-144).*)
(* q is the pending queue the call starts from.                            *)
(***************************************************************************)
startStep(stepIdx, lvl, path, pre, q) ==
    IF pre
    THEN /\ pending' = q
         /\ UNCHANGED << commandsForCurrentStep, movesMadeInStep, status >>
    ELSE LET config == FindConfig(lvl)
             startIndex == stepIdx * config.commandCountPerStep
             stepCommands == Slice(path, startIndex, startIndex + config.commandCountPerStep)
         IN  /\ commandsForCurrentStep' = stepCommands
             /\ movesMadeInStep' = 0
             /\ status' = "LISTENING"
             /\ pending' = Append(q, Op("narration", stepIdx, lvl, path, pre, stepCommands))

\* The START! button, shown while status is START and the preload is over
\* (App.tsx:302-307): startStep(0) of the current render.
ClickStart ==
    /\ ~effectPending
    /\ status = "START"
    /\ ~isPreloadingLevel
    /\ Room
    /\ startStep(0, level, fullPath, isPreloadingLevel, pending)
    /\ event' = "other"
    /\ UNCHANGED << level, playerPos, targetPos, fullPath, currentStep,
                    isPreloadingLevel, isReplaying, effectPending, fed, failed >>

\* The finally block of startStep, once playSequence has finished (App.tsx:147-149).
NarrationDone ==
    /\ ~effectPending
    /\ \E i \in 1..Len(pending) :
        /\ pending[i].kind = "narration"
        /\ CanFinish(i)
        /\ pending' = Remove(pending, i)
    /\ status' = "MOVING"
    /\ event' = "other"
    /\ UNCHANGED << level, playerPos, targetPos, fullPath, currentStep,
                    commandsForCurrentStep, movesMadeInStep, isPreloadingLevel,
                    isReplaying, effectPending, fed, failed >>

(***************************************************************************)
(* executeMove(inputDir) (App.tsx:152-183).                                *)
(***************************************************************************)
\* commandsForCurrentStep[movesMadeInStep]; past the end the read is undefined.
ExpectedMove ==
    IF movesMadeInStep < Len(commandsForCurrentStep)
    THEN commandsForCurrentStep[movesMadeInStep + 1]
    ELSE "undefined"

\* The branch of executeMove for an input equal to the expected move.
AcceptMove(inputDir) ==
    LET nextMovesCount == movesMadeInStep + 1
        config == FindConfig(level)
    IN  /\ playerPos' = MovePose(playerPos, inputDir)
        /\ movesMadeInStep' = nextMovesCount
        /\ IF nextMovesCount = Len(commandsForCurrentStep)
           THEN IF currentStep + 1 = config.totalSteps
                THEN /\ Room
                     /\ pending' = Append(pending, SuccessTimer)
                     /\ UNCHANGED currentStep
                ELSE /\ Room
                     /\ currentStep' = currentStep + 1
                     /\ pending' = Append(pending,
                            Op("step", currentStep + 1, level, fullPath,
                               isPreloadingLevel, << >>))
           ELSE UNCHANGED << currentStep, pending >>
        /\ UNCHANGED << status, failed >>

\* The branch of executeMove for any other input.
RejectMove ==
    /\ status' = "FAIL"
    /\ failed' = TRUE
    /\ UNCHANGED << playerPos, movesMadeInStep, currentStep, pending >>

\* executeMove applying the move before it compares it with the expected one.
executeMove_MoveFirst(inputDir) ==
    IF status # "MOVING"
    THEN UNCHANGED << status, playerPos, movesMadeInStep, currentStep, pending, failed >>
    ELSE IF inputDir = ExpectedMove
    THEN AcceptMove(inputDir)
    ELSE /\ status' = "FAIL"
         /\ failed' = TRUE
         /\ playerPos' = MovePose(playerPos, inputDir)
         /\ UNCHANGED << movesMadeInStep, currentStep, pending >>

executeMove(inputDir) ==
    IF status # "MOVING"
    THEN UNCHANGED << status, playerPos, movesMadeInStep, currentStep, pending, failed >>
    ELSE IF inputDir = ExpectedMove
    THEN AcceptMove(inputDir)
    ELSE RejectMove

\* History of the inputs given while MOVING: the count of inputs so far when
\* each was the next command of fullPath, -1 once one was not.
FedAfter(inputDir) ==
    IF status # "MOVING" THEN fed
    ELSE IF fed >= 0 /\ fed < Len(fullPath) /\ inputDir = fullPath[fed + 1]
    THEN fed + 1
    ELSE -1

\* The key handler with the status checks lost.
handleKeyDown_Unguarded(inputDir) ==
    IF inputDir = ExpectedMove THEN AcceptMove(inputDir) ELSE RejectMove

\* handleKeyDown for an arrow key (App.tsx:185-190).
handleKeyDown(inputDir) ==
    IF status # "MOVING"
    THEN UNCHANGED << status, playerPos, movesMadeInStep, currentStep, pending, failed >>
    ELSE executeMove(inputDir)

\* A keydown event of an arrow key; the listener is attached in every status
\* (App.tsx:192-195).
KeyDown(inputDir) ==
    /\ ~effectPending
    /\ handleKeyDown(inputDir)
    /\ fed' = FedAfter(inputDir)
    /\ event' = "input"
    /\ UNCHANGED << level, targetPos, fullPath, commandsForCurrentStep,
                    isPreloadingLevel, isReplaying, effectPending >>

\* The on-screen direction buttons, rendered while status is MOVING (App.tsx:269-283).
ClickMove(inputDir) ==
    /\ ~effectPending
    /\ status = "MOVING"
    /\ executeMove(inputDir)
    /\ fed' = FedAfter(inputDir)
    /\ event' = "input"
    /\ UNCHANGED << level, targetPos, fullPath, commandsForCurrentStep,
                    isPreloadingLevel, isReplaying, effectPending >>

(***************************************************************************)
(* Timer callbacks.                                                        *)
(***************************************************************************)
\* setTimeout(() => setStatus(GameStatus.SUCCESS), 400)  (App.tsx:173)
SuccessTimerFires ==
    /\ ~effectPending
    /\ \E i \in 1..Len(pending) :
        /\ pending[i].kind = "success"
        /\ CanFinish(i)
        /\ pending' = Remove(pending, i)
    /\ status' = "SUCCESS"
    /\ event' = "other"
    /\ UNCHANGED << level, playerPos, targetPos, fullPath, currentStep,
                    commandsForCurrentStep, movesMadeInStep, isPreloadingLevel,
                    isReplaying, effectPending, fed, failed >>

\* setTimeout(() => startStep(nextIdx), 600)  (App.tsx:177): the startStep of
\* the render in which the move was accepted.
StepTimerFires ==
    /\ ~effectPending
    /\ \E i \in 1..Len(pending) :
        /\ pending[i].kind = "step"
        /\ CanFinish(i)
        /\ startStep(pending[i].stepIdx, pending[i].level, pending[i].path,
                     pending[i].pre, Remove(pending, i))
    /\ event' = "other"
    /\ UNCHANGED << level, playerPos, targetPos, fullPath, currentStep,
                    isPreloadingLevel, isReplaying, effectPending, fed, failed >>

(***************************************************************************)
(* Level advance and replay.                                               *)
(***************************************************************************)
\* nextLevel going on from the last level instead of returning to the first.
nextLevel_NoWrap ==
    /\ ~effectPending
    /\ status = "SUCCESS"
    /\ level' = level + 1
    /\ effectPending' = TRUE
    /\ event' = "other"
    /\ UNCHANGED << status, playerPos, targetPos, fullPath, currentStep,
                    commandsForCurrentStep, movesMadeInStep, isPreloadingLevel,
                    isReplaying, pending, fed, failed >>

\* nextLevel (App.tsx:204), from the NEXT LEVEL button shown while status is
\* SUCCESS (App.tsx:316-321).  The level always changes, so the effect runs.
nextLevel ==
    /\ ~effectPending
    /\ status = "SUCCESS"
    /\ level' = IF level < LAST_LEVEL THEN level + 1 ELSE 1
    /\ effectPending' = TRUE
    /\ event' = "other"
    /\ UNCHANGED << status, playerPos, targetPos, fullPath, currentStep,
                    commandsForCurrentStep, movesMadeInStep, isPreloadingLevel,
                    isReplaying, pending, fed, failed >>

\* replayStepAudio without the check of isReplaying.
replayStepAudio_NoGuard ==
    /\ ~effectPending
    /\ IF status # "MOVING"
       THEN UNCHANGED << isReplaying, pending >>
       ELSE /\ Room
            /\ isReplaying' = TRUE
            /\ pending' = Append(pending,
                   Op("replay", currentStep, level, fullPath, isPreloadingLevel,
                      commandsForCurrentStep))
    /\ event' = "other"
    /\ UNCHANGED << level, status, playerPos, targetPos, fullPath, currentStep,
                    commandsForCurrentStep, movesMadeInStep, isPreloadingLevel,
                    effectPending, fed, failed >>

\* replayStepAudio, up to its await (App.tsx:197-200).  A replay changes only
\* isReplaying and its own pending operation; Next leaves it to the
\* specification of the narration.
replayStepAudio ==
    /\ ~effectPending
    /\ IF isReplaying \/ status # "MOVING"
       THEN UNCHANGED << isReplaying, pending >>
       ELSE /\ Room
            /\ isReplaying' = TRUE
            /\ pending' = Append(pending,
                   Op("replay", currentStep, level, fullPath, isPreloadingLevel,
                      commandsForCurrentStep))
    /\ event' = "other"
    /\ UNCHANGED << level, status, playerPos, targetPos, fullPath, currentStep,
                    commandsForCurrentStep, movesMadeInStep, isPreloadingLevel,
                    effectPending, fed, failed >>

\* The rest of replayStepAudio after its await: setIsReplaying(false).
ReplayDone ==
    /\ ~effectPending
    /\ \E i \in 1..Len(pending) :
        /\ pending[i].kind = "replay"
        /\ CanFinish(i)
        /\ pending' = Remove(pending, i)
    /\ isReplaying' = FALSE
    /\ event' = "other"
    /\ UNCHANGED << level, status, playerPos, targetPos, fullPath, currentStep,
                    commandsForCurrentStep, movesMadeInStep, isPreloadingLevel,
                    effectPending, fed, failed >>

(***************************************************************************)
(* The session engine.  A preload and a narration are operations that take *)
(* some time and then finish: the probes of the preload and the cues of    *)
(* the narration are not followed, every cue is spoken, and the generator  *)
(* draws its path in one step.                                             *)
(***************************************************************************)
Next ==
    \/ LevelEffect /\ UNCHANGED << audioVars, gen, catalog, abandoned >>
    \/ ClickRetry /\ UNCHANGED << audioVars, gen, catalog, abandoned >>
    \/ PreloadDone /\ UNCHANGED << audioVars, gen, catalog, abandoned >>
    \/ ClickStart /\ UNCHANGED << audioVars, gen, catalog, abandoned >>
    \/ NarrationDone /\ UNCHANGED << audioVars, gen, catalog, abandoned >>
    \/ \E d \in Direction : KeyDown(d) /\ UNCHANGED << audioVars, gen, catalog, abandoned >>
    \/ \E d \in Direction : ClickMove(d) /\ UNCHANGED << audioVars, gen, catalog, abandoned >>
    \/ SuccessTimerFires /\ UNCHANGED << audioVars, gen, catalog, abandoned >>
    \/ StepTimerFires /\ UNCHANGED << audioVars, gen, catalog, abandoned >>
    \/ nextLevel /\ UNCHANGED << audioVars, gen, catalog, abandoned >>

Spec == Init /\ [][Next]_vars

(***************************************************************************)
(* The narration player and the availability probe, cue by cue and probe   *)
(* by probe (App.tsx:20-95), under the session engine.  The player uses    *)
(* the on-screen buttons, does not retry and does not replay.              *)
(***************************************************************************)
\* setTimeout delays of the probe, the audio safety net and the speech
\* safety net, in milliseconds.
PROBE_TIMEOUT == 1000

AUDIO_TIMEOUT == 4000

SPEECH_TIMEOUT == 3000

\* The player advances from level 1 up to this level.
MaxAudioLevel == 2

\* The draws of a generation walk the draw table in order from a free start.
AudioBlocks ==
    { block \in DrawBlocks :
        \A i \in 1..DrawPeriod : block[i] = (block[1] + i - 1) % Len(Possible) }

\* The state of the session apart from the pending operations and the
\* history of the last event.
engineVars ==
    << level, status, playerPos, targetPos, fullPath, currentStep,
       commandsForCurrentStep, movesMadeInStep, isPreloadingLevel, isReplaying,
       effectPending, fed, failed >>

IsPlay(op) == op.kind \in {"narration", "replay"}

\* The direction of the cue a sequence is at.
CueOf(op) == op.cmds[op.play.idx]

\* A wait of pending[i] that lasts at least ms can be over: no timer
\* created before pending[i] is still pending that must have fired by then.
CanBeOver(i, ms) ==
    \A j \in 1..(i - 1) : ~(IsTimer(pending[j]) /\ Delay(pending[j]) <= ms)

\* generateLevel of the level effect together with its checkAudioFiles.
LevelEffectAudio ==
    /\ LevelEffectFrom(AudioBlocks)
    /\ marked' = [d \in Direction |-> "no"]
    /\ UNCHANGED << audioAvailability, lateListeners, gen, catalog, abandoned >>

\* The canplaythrough listener of a probe whose timer is pending (App.tsx:88).
ProbeCanPlay(i, d) ==
    /\ ~effectPending
    /\ pending[i].kind = "preload"
    /\ pending[i].probe[d] = "loading"
    /\ audioAvailability' = [audioAvailability EXCEPT ![d] = TRUE]
    /\ pending' = [pending EXCEPT ![i].probe[d] = "ready"]
    /\ event' = "other"
    /\ UNCHANGED << engineVars, lateListeners, marked, gen, catalog, abandoned >>

\* The error listener of a probe whose timer is pending (App.tsx:89).
ProbeError(i, d) ==
    /\ ~effectPending
    /\ pending[i].kind = "preload"
    /\ pending[i].probe[d] = "loading"
    /\ audioAvailability' = [audioAvailability EXCEPT ![d] = FALSE]
    /\ marked' = [marked EXCEPT ![d] = "probe"]
    /\ pending' = [pending EXCEPT ![i].probe[d] = "failed"]
    /\ event' = "other"
    /\ UNCHANGED << engineVars, lateListeners, gen, catalog, abandoned >>

\* The timer of a probe (App.tsx:84-87).  It removes neither listener.
ProbeTimeout(i, d) ==
    /\ ~effectPending
    /\ pending[i].kind = "preload"
    /\ pending[i].probe[d] = "loading"
    /\ CanBeOver(i, PROBE_TIMEOUT)
    /\ audioAvailability' = [audioAvailability EXCEPT ![d] = FALSE]
    /\ marked' = [marked EXCEPT ![d] = "probe"]
    /\ lateListeners' = lateListeners \cup {d}
    /\ pending' = [pending EXCEPT ![i].probe[d] = "timedout"]
    /\ event' = "other"
    /\ UNCHANGED << engineVars, gen, catalog, abandoned >>

\* The canplaythrough listener of a probe after the probe's timer has fired.
LateCanPlay(d) ==
    /\ ~effectPending
    /\ d \in lateListeners
    /\ audioAvailability' = [audioAvailability EXCEPT ![d] = TRUE]
    /\ lateListeners' = lateListeners \ {d}
    /\ event' = "other"
    /\ UNCHANGED << engineVars, pending, marked, gen, catalog, abandoned >>

\* The error listener of a probe after the probe's timer has fired; no
\* canplaythrough follows an error.
LateError(d) ==
    /\ ~effectPending
    /\ d \in lateListeners
    /\ audioAvailability' = [audioAvailability EXCEPT ![d] = FALSE]
    /\ lateListeners' = lateListeners \ {d}
    /\ event' = "other"
    /\ UNCHANGED << engineVars, pending, marked, gen, catalog, abandoned >>

\* The rest of generateLevel once Promise.all has resolved: every probe has
\* resolved and the minimum display time is over.
PreloadEnds ==
    /\ PreloadDone
    /\ \E i \in 1..Len(pending) :
        /\ pending[i].kind = "preload"
        /\ \A d \in Direction : pending[i].probe[d] # "loading"
        /\ pending' = Remove(pending, i)
    /\ UNCHANGED << audioVars, gen, catalog, abandoned >>

\* audio.onended (App.tsx:54).
AudioEnded(i) ==
    /\ ~effectPending
    /\ IsPlay(pending[i])
    /\ pending[i].play.phase = "audio"
    /\ pending' = [pending EXCEPT ![i].play.phase = "pause"]
    /\ event' = "other"
    /\ UNCHANGED << engineVars, audioVars, gen, catalog, abandoned >>

\* The safety timer never fires.
SafetyTimeout_Never(i, alive) ==
    /\ FALSE
    /\ UNCHANGED vars

\* The safety timer of the audio (App.tsx:49-52).  The Audio element is not
\* stopped and keeps its handlers; alive tells whether it can still signal.
SafetyTimeout(i, alive) ==
    /\ ~effectPending
    /\ IsPlay(pending[i])
    /\ pending[i].play.phase = "audio"
    /\ CanBeOver(i, AUDIO_TIMEOUT)
    /\ pending' = [pending EXCEPT ![i].play.phase = "pause"]
    /\ abandoned' = IF alive THEN [abandoned EXCEPT ![CueOf(pending[i])] = "audio"]
                             ELSE abandoned
    /\ event' = "other"
    /\ UNCHANGED << engineVars, audioVars, gen, catalog >>

\* audio.onerror, or the rejection of audio.play() (App.tsx:55-67): the
\* direction is marked unavailable and the cue is spoken.
AudioFails(i) ==
    /\ ~effectPending
    /\ IsPlay(pending[i])
    /\ pending[i].play.phase = "audio"
    /\ audioAvailability' = [audioAvailability EXCEPT ![CueOf(pending[i])] = FALSE]
    /\ marked' = [marked EXCEPT ![CueOf(pending[i])] = "play"]
    /\ pending' = [pending EXCEPT ![i].play.phase = "speech",
                                  ![i].play.errored = TRUE,
                                  ![i].play.spoken = TRUE]
    /\ event' = "other"
    /\ UNCHANGED << engineVars, lateListeners, gen, catalog, abandoned >>

\* utterance.onend or utterance.onerror (App.tsx:33-34).
SpeechEnds(i) ==
    /\ ~effectPending
    /\ IsPlay(pending[i])
    /\ pending[i].play.phase = "speech"
    /\ pending' = [pending EXCEPT ![i].play.phase = "pause"]
    /\ event' = "other"
    /\ UNCHANGED << engineVars, audioVars, gen, catalog, abandoned >>

\* The safety timer of speakFallback (App.tsx:28).
SpeechTimeout(i) ==
    /\ ~effectPending
    /\ IsPlay(pending[i])
    /\ pending[i].play.phase = "speech"
    /\ CanBeOver(i, SPEECH_TIMEOUT)
    /\ pending' = [pending EXCEPT ![i].play.phase = "pause"]
    /\ event' = "other"
    /\ UNCHANGED << engineVars, audioVars, gen, catalog, abandoned >>

\* The pause after a cue is over and the loop of playSequence goes on to the
\* next command (App.tsx:73-75).
PauseEnds(i) ==
    /\ ~effectPending
    /\ IsPlay(pending[i])
    /\ pending[i].play.phase = "pause"
    /\ pending[i].play.idx < Len(pending[i].cmds)
    /\ CanBeOver(i, CUE_PAUSE * pending[i].play.idx)
    /\ pending' = [pending EXCEPT ![i].play =
                      playAudioWithFallback(pending[i].cmds[pending[i].play.idx + 1],
                                            pending[i].play.idx + 1)]
    /\ event' = "other"
    /\ UNCHANGED << engineVars, audioVars, gen, catalog, abandoned >>

\* playSequence has returned: the pause after its last cue is over.
PlayOver(op) ==
    \/ op.play.phase = "done"
    \/ op.play.phase = "pause" /\ op.play.idx = Len(op.cmds)

\* The finally block of startStep once playSequence has returned.
NarrationEnds ==
    /\ NarrationDone
    /\ \E i \in 1..Len(pending) :
        /\ pending[i].kind = "narration"
        /\ PlayOver(pending[i])
        /\ pending' = Remove(pending, i)
    /\ UNCHANGED << audioVars, gen, catalog, abandoned >>

\* The rest of replayStepAudio once playSequence has returned.
ReplayEnds ==
    /\ ReplayDone
    /\ \E i \in 1..Len(pending) :
        /\ pending[i].kind = "replay"
        /\ PlayOver(pending[i])
        /\ pending' = Remove(pending, i)
    /\ UNCHANGED << audioVars, gen, catalog, abandoned >>

NextAudio ==
    \/ LevelEffectAudio
    \/ \E i \in 1..Len(pending), d \in Direction : ProbeCanPlay(i, d)
    \/ \E i \in 1..Len(pending), d \in Direction : ProbeError(i, d)
    \/ \E i \in 1..Len(pending), d \in Direction : ProbeTimeout(i, d)
    \/ \E d \in Direction : LateCanPlay(d)
    \/ \E d \in Direction : LateError(d)
    \/ PreloadEnds
    \/ ClickStart /\ UNCHANGED << audioVars, gen, catalog, abandoned >>
    \/ \E i \in 1..Len(pending) : AudioEnded(i)
    \/ \E i \in 1..Len(pending) : SafetyTimeout(i, FALSE)
    \/ \E i \in 1..Len(pending) : AudioFails(i)
    \/ \E i \in 1..Len(pending) : SpeechEnds(i)
    \/ \E i \in 1..Len(pending) : SpeechTimeout(i)
    \/ \E i \in 1..Len(pending) : PauseEnds(i)
    \/ NarrationEnds
    \/ \E d \in Direction : ClickMove(d) /\ UNCHANGED << audioVars, gen, catalog, abandoned >>
    \/ SuccessTimerFires /\ UNCHANGED << audioVars, gen, catalog, abandoned >>
    \/ StepTimerFires /\ UNCHANGED << audioVars, gen, catalog, abandoned >>
    \/ level < MaxAudioLevel /\ nextLevel /\ UNCHANGED << audioVars, gen, catalog, abandoned >>

SpecAudio == Init /\ [][NextAudio]_vars

\* The same with the scheduling the runtime guarantees: the level effect
\* runs, every timer fires, and a resolved await continues.  Nothing is
\* required of the audio and speech engines, of the network or of the player.
SpecAudioFair ==
    /\ Init
    /\ [][NextAudio]_vars
    /\ WF_vars(LevelEffectAudio)
    /\ WF_vars(\E i \in 1..Len(pending), d \in Direction : ProbeTimeout(i, d))
    /\ WF_vars(PreloadEnds)
    /\ WF_vars(\E i \in 1..Len(pending) : SafetyTimeout(i, FALSE))
    /\ WF_vars(\E i \in 1..Len(pending) : SpeechTimeout(i))
    /\ WF_vars(\E i \in 1..Len(pending) : PauseEnds(i))
    /\ WF_vars(NarrationEnds)
    /\ WF_vars(SuccessTimerFires /\ UNCHANGED << audioVars, gen, catalog, abandoned >>)
    /\ WF_vars(StepTimerFires /\ UNCHANGED << audioVars, gen, catalog, abandoned >>)

(***************************************************************************)
(* Replay under the session engine and the narration player.  Every asset  *)
(* loads before its probe's timeout; a playback can still fail.            *)
(***************************************************************************)
NextReplay ==
    \/ LevelEffectAudio
    \/ \E i \in 1..Len(pending), d \in Direction : ProbeCanPlay(i, d)
    \/ PreloadEnds
    \/ ClickStart /\ UNCHANGED << audioVars, gen, catalog, abandoned >>
    \/ \E i \in 1..Len(pending) : AudioEnded(i)
    \/ \E i \in 1..Len(pending) : SafetyTimeout(i, FALSE)
    \/ \E i \in 1..Len(pending) : AudioFails(i)
    \/ \E i \in 1..Len(pending) : SpeechEnds(i)
    \/ \E i \in 1..Len(pending) : SpeechTimeout(i)
    \/ \E i \in 1..Len(pending) : PauseEnds(i)
    \/ NarrationEnds
    \/ \E d \in Direction : ClickMove(d) /\ UNCHANGED << audioVars, gen, catalog, abandoned >>
    \/ SuccessTimerFires /\ UNCHANGED << audioVars, gen, catalog, abandoned >>
    \/ StepTimerFires /\ UNCHANGED << audioVars, gen, catalog, abandoned >>
    \/ level < MaxAudioLevel /\ nextLevel /\ UNCHANGED << audioVars, gen, catalog, abandoned >>
    \/ replayStepAudio /\ UNCHANGED << audioVars, gen, catalog, abandoned >>
    \/ ReplayEnds

SpecReplay == Init /\ [][NextReplay]_vars

(***************************************************************************)
(* The narration with Audio elements that outlive their safety timer.  The *)
(* timer of App.tsx:49-52 resolves the cue and nothing stops the element   *)
(* or detaches onended and onerror, so the element can still signal.       *)
(* Every asset loads before its probe's timeout.                           *)
(***************************************************************************)
\* audio.onended of an abandoned element (App.tsx:54): clearTimeout of a
\* timer that has fired and resolve of a settled promise, both without effect.
AbandonedEnds(d) ==
    /\ ~effectPending
    /\ abandoned[d] = "audio"
    /\ abandoned' = [abandoned EXCEPT ![d] = "none"]
    /\ event' = "other"
    /\ UNCHANGED << engineVars, pending, audioVars, gen, catalog >>

\* audio.onerror of an abandoned element, or the rejection of its play()
\* (App.tsx:55-67): the direction is marked unavailable and speakFallback
\* speaks the phrase of the cue.
AbandonedFails(d) ==
    /\ ~effectPending
    /\ abandoned[d] = "audio"
    /\ audioAvailability' = [audioAvailability EXCEPT ![d] = FALSE]
    /\ marked' = [marked EXCEPT ![d] = "play"]
    /\ abandoned' = [abandoned EXCEPT ![d] = "speech"]
    /\ event' = "other"
    /\ UNCHANGED << engineVars, pending, lateListeners, gen, catalog >>

\* The end of the speech of an abandoned element: onend, onerror or the
\* timer of speakFallback (App.tsx:28-34), then a resolve without effect.
AbandonedSpeechEnds(d) ==
    /\ ~effectPending
    /\ abandoned[d] = "speech"
    /\ abandoned' = [abandoned EXCEPT ![d] = "none"]
    /\ event' = "other"
    /\ UNCHANGED << engineVars, pending, audioVars, gen, catalog >>

NextCues ==
    \/ LevelEffectAudio
    \/ \E i \in 1..Len(pending), d \in Direction : ProbeCanPlay(i, d)
    \/ PreloadEnds
    \/ ClickStart /\ UNCHANGED << audioVars, gen, catalog, abandoned >>
    \/ \E i \in 1..Len(pending) : AudioEnded(i)
    \/ \E i \in 1..Len(pending), alive \in BOOLEAN : SafetyTimeout(i, alive)
    \/ \E i \in 1..Len(pending) : AudioFails(i)
    \/ \E i \in 1..Len(pending) : SpeechEnds(i)
    \/ \E i \in 1..Len(pending) : SpeechTimeout(i)
    \/ \E i \in 1..Len(pending) : PauseEnds(i)
    \/ \E d \in Direction : AbandonedEnds(d)
    \/ \E d \in Direction : AbandonedFails(d)
    \/ \E d \in Direction : AbandonedSpeechEnds(d)
    \/ NarrationEnds
    \/ \E d \in Direction : ClickMove(d) /\ UNCHANGED << audioVars, gen, catalog, abandoned >>
    \/ SuccessTimerFires /\ UNCHANGED << audioVars, gen, catalog, abandoned >>
    \/ StepTimerFires /\ UNCHANGED << audioVars, gen, catalog, abandoned >>
    \/ level < MaxAudioLevel /\ nextLevel /\ UNCHANGED << audioVars, gen, catalog, abandoned >>

SpecCues == Init /\ [][NextCues]_vars

(***************************************************************************)
(* The path generator, one loop iteration at a time (App.tsx:101-125).     *)
(* The generator reads only totalSteps and commandCountPerStep of the      *)
(* config it found; the configs range over the catalog's command counts    *)
(* and over step counts up to MaxGenSteps, and every draw is free.         *)
(***************************************************************************)
\* Most steps of a config given to the generator.
MaxGenSteps == 2

GenConfigs ==
    { [id |-> c, commandCountPerStep |-> c, totalSteps |-> t] :
        c \in 1..3, t \in 1..MaxGenSteps }

\* The loop bound with the two factors added.
TotalMovesNeeded_Sum(config) == config.totalSteps + config.commandCountPerStep

\* const totalMovesNeeded = config.totalSteps * config.commandCountPerStep
TotalMovesNeeded(config) == config.totalSteps * config.commandCountPerStep

\* generateLevel has run up to its loop (App.tsx:98-104).
InitGen ==
    /\ level = 1
    /\ status = "START"
    /\ playerPos = Origin
    /\ targetPos = [x2 |-> 0, z2 |-> -2 * GRID_SIZE]
    /\ fullPath = << >>
    /\ currentStep = 0
    /\ commandsForCurrentStep = << >>
    /\ movesMadeInStep = 0
    /\ isPreloadingLevel = TRUE
    /\ isReplaying = FALSE
    /\ effectPending = FALSE
    /\ pending = << >>
    /\ event = "init"
    /\ fed = 0
    /\ failed = FALSE
    /\ audioAvailability = [d \in Direction |-> FALSE]
    /\ lateListeners = {}
    /\ marked = [d \in Direction |-> "no"]
    /\ \E config \in GenConfigs : gen = [GenIdle EXCEPT !.running = TRUE, !.config = config]
    /\ catalog = LEVEL_CONFIGS
    /\ abandoned = [d \in Direction |-> "none"]

\* One iteration of the loop: a draw, path.push(move), the simulation step.
GenLoop ==
    /\ gen.running
    /\ gen.i < TotalMovesNeeded(gen.config)
    /\ \E r \in 0..(Len(Possible) - 1) :
        LET move == Possible[r + 1]
        IN  gen' = [gen EXCEPT !.i = @ + 1,
                               !.path = Append(@, move),
                               !.sim = SimStep(@, move)]
    /\ UNCHANGED << level, status, playerPos, targetPos, fullPath, currentStep,
                    commandsForCurrentStep, movesMadeInStep, isPreloadingLevel,
                    isReplaying, effectPending, pending, event, fed, failed, audioVars, catalog, abandoned >>

\* The loop is over: the setters of App.tsx:118-125 and the start of the preload.
GenFinish ==
    /\ gen.running
    /\ ~(gen.i < TotalMovesNeeded(gen.config))
    /\ fullPath' = gen.path
    /\ targetPos' = GoalAt(gen.sim.x, gen.sim.z)
    /\ playerPos' = Origin
    /\ currentStep' = 0
    /\ movesMadeInStep' = 0
    /\ pending' = Append(pending, PreloadOp)
    /\ gen' = [gen EXCEPT !.running = FALSE]
    /\ UNCHANGED << level, status, commandsForCurrentStep, isPreloadingLevel,
                    isReplaying, effectPending, event, fed, failed, audioVars, catalog, abandoned >>

NextGen == GenLoop \/ GenFinish

SpecGen == InitGen /\ [][NextGen]_vars

(***************************************************************************)
(* A generated level played: the generator draw by draw, then the session  *)
(* engine on the path it made, up to SUCCESS or FAIL.  The catalog holds   *)
(* one config, with one of the catalog's command counts and as many steps  *)
(* as give a path of at most MaxPlayMoves moves; the engine reads it by    *)
(* the id of level 1.                                                      *)
(***************************************************************************)
\* Most moves of a path that is generated and played.
MaxPlayMoves == 6

PlayConfigs ==
    { config \in [id : {1}, commandCountPerStep : 1..3, totalSteps : 1..MaxPlayMoves] :
        TotalMovesNeeded(config) <= MaxPlayMoves }

\* generateLevel(1) has run up to its loop (App.tsx:98-104).
InitPlay ==
    /\ level = 1
    /\ status = "START"
    /\ playerPos = Origin
    /\ targetPos = [x2 |-> 0, z2 |-> -2 * GRID_SIZE]
    /\ fullPath = << >>
    /\ currentStep = 0
    /\ commandsForCurrentStep = << >>
    /\ movesMadeInStep = 0
    /\ isPreloadingLevel = TRUE
    /\ isReplaying = FALSE
    /\ effectPending = FALSE
    /\ pending = << >>
    /\ event = "init"
    /\ fed = 0
    /\ failed = FALSE
    /\ audioAvailability = [d \in Direction |-> FALSE]
    /\ lateListeners = {}
    /\ marked = [d \in Direction |-> "no"]
    /\ abandoned = [d \in Direction |-> "none"]
    /\ \E config \in PlayConfigs :
        /\ catalog = << config >>
        /\ gen = [GenIdle EXCEPT !.running = TRUE, !.config = config]

NextPlay ==
    \/ GenLoop
    \/ GenFinish
    \/ PreloadDone /\ UNCHANGED << audioVars, gen, catalog, abandoned >>
    \/ ClickStart /\ UNCHANGED << audioVars, gen, catalog, abandoned >>
    \/ NarrationDone /\ UNCHANGED << audioVars, gen, catalog, abandoned >>
    \/ \E d \in Direction : KeyDown(d) /\ UNCHANGED << audioVars, gen, catalog, abandoned >>
    \/ \E d \in Direction : ClickMove(d) /\ UNCHANGED << audioVars, gen, catalog, abandoned >>
    \/ SuccessTimerFires /\ UNCHANGED << audioVars, gen, catalog, abandoned >>
    \/ StepTimerFires /\ UNCHANGED << audioVars, gen, catalog, abandoned >>

SpecPlay == InitPlay /\ [][NextPlay]_vars

(***************************************************************************)
(* The component mounted with any number in the level cell, an id of the   *)
(* catalog or not, and the attempts of that level.                         *)
(***************************************************************************)
\* The ids 1 to LAST_LEVEL of the catalog, and one number on each side.
MountLevels == 0..(LAST_LEVEL + 1)

\* The render finds currentConfig (App.tsx:206), which the header
\* dereferences without a check (App.tsx:226-230).
Renders == FindIndex(level) # 0

\* The first render, before the mount effect has run.
InitMount ==
    /\ level \in MountLevels
    /\ status = "START"
    /\ playerPos = Origin
    /\ targetPos = [x2 |-> 0, z2 |-> -2 * GRID_SIZE]
    /\ fullPath = << >>
    /\ currentStep = 0
    /\ commandsForCurrentStep = << >>
    /\ movesMadeInStep = 0
    /\ isPreloadingLevel = TRUE
    /\ isReplaying = FALSE
    /\ effectPending = TRUE
    /\ pending = << >>
    /\ event = "init"
    /\ fed = 0
    /\ failed = FALSE
    /\ audioAvailability = [d \in Direction |-> FALSE]
    /\ lateListeners = {}
    /\ marked = [d \in Direction |-> "no"]
    /\ gen = GenIdle
    /\ catalog = LEVEL_CONFIGS
    /\ abandoned = [d \in Direction |-> "none"]

\* A render with currentConfig undefined: reading currentConfig.totalSteps
\* throws a TypeError, the tree is unmounted, and no effect or handler of
\* the component runs any more.
RenderFails ==
    /\ ~Renders
    /\ event # "error"
    /\ event' = "error"
    /\ UNCHANGED << engineVars, pending, audioVars, gen, catalog, abandoned >>

NextMount ==
    \/ RenderFails
    \/ Renders /\ LevelEffect /\ UNCHANGED << audioVars, gen, catalog, abandoned >>
    \/ Renders /\ ClickRetry /\ UNCHANGED << audioVars, gen, catalog, abandoned >>
    \/ Renders /\ PreloadDone /\ UNCHANGED << audioVars, gen, catalog, abandoned >>
    \/ Renders /\ ClickStart /\ UNCHANGED << audioVars, gen, catalog, abandoned >>
    \/ Renders /\ NarrationDone /\ UNCHANGED << audioVars, gen, catalog, abandoned >>
    \/ \E d \in Direction :
          Renders /\ KeyDown(d) /\ UNCHANGED << audioVars, gen, catalog, abandoned >>
    \/ \E d \in Direction :
          Renders /\ ClickMove(d) /\ UNCHANGED << audioVars, gen, catalog, abandoned >>
    \/ Renders /\ SuccessTimerFires /\ UNCHANGED << audioVars, gen, catalog, abandoned >>
    \/ Renders /\ StepTimerFires /\ UNCHANGED << audioVars, gen, catalog, abandoned >>

SpecMount == InitMount /\ [][NextMount]_vars

(***************************************************************************)
(* Properties.                                                             *)
(***************************************************************************)
\* currentConfig of the render (App.tsx:206).
CurrentConfig == FindConfig(level)

\* The slice of the current path for step stepIdx of the current level.
StepSlice(stepIdx) ==
    Slice(fullPath, stepIdx * CurrentConfig.commandCountPerStep,
          stepIdx * CurrentConfig.commandCountPerStep + CurrentConfig.commandCountPerStep)

\* A generation has run in this step: generateLevel, and only it, starts a preload.
Generates ==
    /\ Len(pending') = Len(pending) + 1
    /\ pending'[Len(pending')].kind = "preload"

\* A begin-step that passed the preload check has run in this step: startStep,
\* and only it, starts a narration (from the START! button on top of the
\* queue, from a step timer in the place of the timer).
BeginStepTakesEffect ==
    /\ pending' # pending
    /\ Len(pending') >= Len(pending)
    /\ Len(pending') > 0
    /\ pending'[Len(pending')].kind = "narration"

\* C1: as long as every input given in MOVING is the next command of the
\* generated path, in order, the attempt never is in FAIL.
C1_FaithfulInputNeverFails == fed >= 0 => status # "FAIL"

\* C2: in MOVING, an input that differs from the expected command
\* commandsForStep[movesAcceptedInStep] sets status to FAIL in that transition
\* and leaves pose and movesAcceptedInStep unchanged, at every step and position.
C2_WrongInputFails ==
    [][\A d \in Direction :
          (status = "MOVING" /\ d # ExpectedMove /\ (KeyDown(d) \/ ClickMove(d)))
          => /\ status' = "FAIL"
             /\ playerPos' = playerPos
             /\ movesMadeInStep' = movesMadeInStep]_vars

\* C2 witness: a wrong input was rejected in the middle of a later step.
C2_Witness ==
    /\ status = "FAIL"
    /\ event = "input"
    /\ currentStep > 0
    /\ movesMadeInStep > 0
    /\ movesMadeInStep < Len(commandsForCurrentStep)
    /\ playerPos # Origin

\* C3: once status has become FAIL in an attempt, pose does not change until
\* the session is regenerated.
C3_PoseFrozenAfterFail == [][(failed /\ failed') => playerPos' = playerPos]_vars

\* C4: an input delivered while status is START, LISTENING, SUCCESS or FAIL
\* changes nothing of the session and schedules nothing.
C4_InputIgnoredOutsideMoving ==
    [][\A d \in Direction :
          (status # "MOVING" /\ KeyDown(d))
          => UNCHANGED << level, status, playerPos, targetPos, fullPath, currentStep,
                          commandsForCurrentStep, movesMadeInStep, isPreloadingLevel,
                          isReplaying, pending, failed >>]_vars

\* C4 witness: an input has just been delivered during a narration that
\* follows accepted moves.
C4_Witness ==
    /\ event = "input"
    /\ status = "LISTENING"
    /\ playerPos # Origin
    /\ pending # << >>

\* C5: once status is FAIL it stays FAIL until a retry, which leads to START.
C5_FailIsTerminal ==
    [][status = "FAIL" => (status' = "FAIL" \/ (status' = "START" /\ ClickRetry))]_vars

\* C6: whenever status is SUCCESS, the current step is the last step of the
\* current level's config and all of its moves are accepted.  Stated for the
\* states in which the session of the current level has been generated: the
\* render between nextLevel and the level effect shows the old session under
\* the new level.
C6_SuccessOnlyAtFinalStep ==
    (status = "SUCCESS" /\ ~effectPending) =>
        /\ currentStep + 1 = CurrentConfig.totalSteps
        /\ movesMadeInStep = Len(commandsForCurrentStep)

\* C7: SUCCESS is left only by the level advance, whose generation leads to
\* START, and FAIL is left only by retry.
C7_SuccessIsTerminal ==
    [][/\ status = "SUCCESS" => (status' = "SUCCESS" \/ (status' = "START" /\ LevelEffect))
       /\ status = "FAIL" => (status' = "FAIL" \/ (status' = "START" /\ ClickRetry))]_vars

\* C8: status leaves START only by the begin-step trigger, to LISTENING, with
\* commandsForStep the slice for step 0 of the current path and
\* movesAcceptedInStep 0.
C8_StartLeftOnlyByBeginStep ==
    [][(status = "START" /\ status' # "START")
       => /\ ClickStart
          /\ status' = "LISTENING"
          /\ commandsForCurrentStep' = StepSlice(0)
          /\ movesMadeInStep' = 0]_vars

\* C9: commandsForStep is the slice of the current path for currentStepIndex.
\* Stated for the states in which the step's commands are in use: during the
\* narration, and in MOVING while moves of the step remain.
C9_CommandsAreCurrentSlice ==
    (/\ ~effectPending
     /\ \/ status = "LISTENING"
        \/ status = "MOVING" /\ movesMadeInStep < Len(commandsForCurrentStep))
    => commandsForCurrentStep = StepSlice(currentStep)

\* C10 (as claimed): movesAcceptedInStep is 0 in the state that results from
\* any change of currentStepIndex and from any generation.
C10_ResetOnStepChange ==
    [][/\ currentStep' # currentStep => movesMadeInStep' = 0
       /\ Generates => movesMadeInStep' = 0]_vars

\* C10 (amended): movesAcceptedInStep is 0 in the state that results from any
\* generation and from any begin-step that takes effect; the accept that
\* advances currentStepIndex leaves it at the length of commandsForStep.
C10_ResetOnGenerateAndBeginStep ==
    [][/\ Generates => movesMadeInStep' = 0
       /\ BeginStepTakesEffect => (status' = "LISTENING" /\ movesMadeInStep' = 0)
       /\ (currentStep' # currentStep /\ ~Generates)
          => /\ currentStep' = currentStep + 1
             /\ movesMadeInStep' = Len(commandsForCurrentStep')
             /\ movesMadeInStep' > 0]_vars

\* C10 witness: the accept that completed a step of several commands has
\* advanced currentStepIndex and the count is not yet reset.
C10_Witness ==
    /\ event = "input"
    /\ status = "MOVING"
    /\ currentStep > 0
    /\ Len(commandsForCurrentStep) > 1
    /\ movesMadeInStep = Len(commandsForCurrentStep)
    /\ \E i \in 1..Len(pending) : pending[i].kind = "step" /\ pending[i].stepIdx = currentStep

\* An await of generateLevel is still open: its asset checks or its minimum
\* display timer have not finished.
PreloadInProgress == \E i \in 1..Len(pending) : pending[i].kind = "preload"

\* C13: while a preload is in progress status stays START; it never is
\* LISTENING or MOVING before the asset checks and the minimum display timer
\* have finished.
C13_NotPlayableWhilePreloading == PreloadInProgress => status = "START"

\* The pose the movement rules of the design give for a pose whose rotation
\* is a multiple of 90: the rules' sine and cosine, heading by heading.
MovementModel(pose, dir) ==
    LET heading == pose.rotation % 360
    IN  IF dir = "STRAIGHT"
        THEN IF heading = 0 THEN [pose EXCEPT !.z = pose.z - GRID_SIZE]
             ELSE IF heading = 90 THEN [pose EXCEPT !.x = pose.x - GRID_SIZE]
             ELSE IF heading = 180 THEN [pose EXCEPT !.z = pose.z + GRID_SIZE]
             ELSE [pose EXCEPT !.x = pose.x + GRID_SIZE]
        ELSE IF dir = "LEFT"
        THEN [pose EXCEPT !.rotation = pose.rotation + 90]
        ELSE [pose EXCEPT !.rotation = pose.rotation - 90]

\* C20: every accepted input updates the pose as the movement rules say:
\* STRAIGHT moves one cell along the heading and keeps the rotation, LEFT
\* adds 90 to the rotation, RIGHT subtracts 90, both keep x and z, and the
\* rotation is not brought back into [0, 360).
C20_AcceptedInputMovesByModel ==
    [][\A d \in Direction :
          (status = "MOVING" /\ d = ExpectedMove /\ (KeyDown(d) \/ ClickMove(d)))
          => /\ playerPos.rotation % 90 = 0
             /\ playerPos' = MovementModel(playerPos, d)]_vars

\* C20 witness: a STRAIGHT of the path has just been accepted at rotation 360,
\* after four accepted LEFTs.
C20_Witness ==
    /\ event = "input"
    /\ fed > 0
    /\ fullPath[fed] = "STRAIGHT"
    /\ playerPos.rotation = 360
    /\ status = "MOVING"

\* The generator has returned the path of gen.config.
Generated == ~gen.running /\ gen.config \in GenConfigs

\* C18: the generated path has exactly totalSteps * commandCountPerStep
\* elements, each of them STRAIGHT, LEFT or RIGHT, for every config and every
\* outcome of the draws.
C18_PathLength ==
    Generated =>
        /\ Len(fullPath) = gen.config.totalSteps * gen.config.commandCountPerStep
        /\ \A i \in 1..Len(fullPath) : fullPath[i] \in Direction

\* C18 witness: a path of six moves with all three directions was generated.
C18_Witness ==
    /\ Generated
    /\ Len(fullPath) = 6
    /\ { fullPath[i] : i \in 1..Len(fullPath) } = Direction

\* C19: the goal is the centre of a grid cell: goal.x mod gridSize and
\* goal.z mod gridSize are gridSize / 2 (the fields are stored doubled).
C19_GoalIsCellCentre ==
    Generated =>
        /\ targetPos.x2 % (2 * GRID_SIZE) = GRID_SIZE
        /\ targetPos.z2 % (2 * GRID_SIZE) = GRID_SIZE

\* C19 witness: a goal left of and behind the origin, (-2.5, 7.5).
C19_Witness ==
    /\ Generated
    /\ targetPos = [x2 |-> -5, z2 |-> 15]

\* The sequences that have a cue in flight: an audio playing or a fallback
\* speech being spoken.
CuesInFlight ==
    { i \in 1..Len(pending) :
        IsPlay(pending[i]) /\ pending[i].play.phase \in {"audio", "speech"} }

\* C11: at no time are two cues in flight, across step narration, replay,
\* the fallback to speech and the safety timeouts.
C11_OneCueAtATime == Cardinality(CuesInFlight) <= 1

\* The replays in flight in a queue of pending operations.
ReplaysIn(q) == { i \in 1..Len(q) : q[i].kind = "replay" }

\* A replay narration has started in this step.
ReplayStarts == Cardinality(ReplaysIn(pending')) > Cardinality(ReplaysIn(pending))

\* C12: a replay request starts a narration of the current step's sequence
\* only if status is MOVING and no replay is in flight; a request made while
\* a replay is in flight or in another status changes nothing; at most one
\* replay narration is in flight at any time.
C12_ReplayGuard ==
    /\ [](Cardinality(ReplaysIn(pending)) <= 1)
    /\ [][/\ ReplayStarts
             => /\ status = "MOVING"
                /\ ReplaysIn(pending) = {}
                /\ pending'[Len(pending')].kind = "replay"
                /\ pending'[Len(pending')].cmds = commandsForCurrentStep
          /\ (replayStepAudio /\ (status # "MOVING" \/ ReplaysIn(pending) # {}))
             => UNCHANGED << engineVars, pending, audioVars >>]_vars

\* C12 witness: a replay of a step of two commands is at its second cue and
\* a request has just been made.
C12_Witness ==
    /\ isReplaying
    /\ event = "other"
    /\ \E i \in ReplaysIn(pending) :
        /\ Len(pending[i].cmds) = 2
        /\ pending[i].play.idx = 2
        /\ pending[i].play.phase \in {"audio", "speech"}

\* C14: a cue is voiced by speech synthesis if and only if the direction was
\* not available when playAudioWithFallback was called or the audio play
\* attempt failed; a cue of an available direction whose audio does not fail
\* is never spoken.
C14_SpeechIffUnavailableOrFailed ==
    \A i \in 1..Len(pending) :
        (IsPlay(pending[i]) /\ pending[i].play.idx >= 1)
        => /\ pending[i].play.spoken <=> (~pending[i].play.available \/ pending[i].play.errored)
           /\ pending[i].play.phase = "speech" => pending[i].play.spoken
           /\ pending[i].play.phase = "audio" => ~pending[i].play.spoken

\* C14 witness: the second cue of a narration is being spoken after its
\* audio failed, while another direction is available.
C14_Witness ==
    \E i \in 1..Len(pending) :
        /\ pending[i].kind = "narration"
        /\ pending[i].play.idx = 2
        /\ pending[i].play.phase = "speech"
        /\ pending[i].play.available
        /\ pending[i].play.errored
        /\ \E d \in Direction : audioAvailability[d]

\* C15: once an audio play attempt for a direction has failed during an
\* attempt, the direction is unavailable from then on in that attempt, so
\* that every later cue of the direction is spoken.
C15_FailedPlayStaysUnavailable ==
    \A d \in Direction : marked[d] = "play" => ~audioAvailability[d]

\* C16: a direction whose probe failed or timed out in this attempt is
\* unavailable and stays unavailable for the attempt; a canplaythrough
\* signal that arrives after the timeout does not make it available.
C16_TimedOutProbeStaysUnavailable ==
    \A d \in Direction : marked[d] = "probe" => ~audioAvailability[d]

\* C17: from every state with status LISTENING the session reaches MOVING,
\* whatever the audio and speech engines do or fail to do.
C17_ListeningLeadsToMoving == (status = "LISTENING") ~> (status = "MOVING")

\* C17 witness: during a narration the audio of the second cue is playing.
C17_Witness ==
    /\ status = "LISTENING"
    /\ \E i \in 1..Len(pending) :
        /\ pending[i].kind = "narration"
        /\ pending[i].play.idx = 2
        /\ pending[i].play.phase = "audio"

\* C28: whenever status is MOVING, movesMadeInStep is less than the number
\* of commands of the step, so that an input is always compared with a
\* defined expected command, also during the delay after the accept that
\* completes a step.
C28_ExpectedMoveDefined ==
    status = "MOVING" => movesMadeInStep < Len(commandsForCurrentStep)

\* C25: in every reachable state currentStep is an index of a step of the
\* current level's config, also between a level advance and the generation
\* of the new level.
C25_StepIndexWithinLevel ==
    /\ 0 <= currentStep
    /\ currentStep < CurrentConfig.totalSteps

\* The level after catalog level lvl: the next id, the first id after the last.
Advance(lvl) == IF lvl = catalog[Len(catalog)].id THEN catalog[1].id ELSE lvl + 1

\* C23: a level advance happens only from SUCCESS, it goes from every
\* catalog level but the last to the next level and from the last level to
\* the first, and the level is always an id of the catalog.
C23_LevelAdvance ==
    /\ [](FindIndex(level) # 0)
    /\ [][/\ nextLevel => level' = Advance(level)
          /\ level' # level => (status = "SUCCESS" /\ level' = Advance(level))]_vars

\* C23 witness: the advance from the last level has just returned to the
\* first one, the path of the last level still in place.
C23_Witness ==
    /\ level = catalog[1].id
    /\ effectPending
    /\ status = "SUCCESS"
    /\ Len(fullPath) = TotalMovesNeeded(catalog[Len(catalog)])

\* C22: a retry and a level advance replace the session: right after the
\* generation status is START, the pose is the origin, currentStep and
\* movesMadeInStep are 0, and nothing of the previous attempt is left in
\* flight, the new preload being the only pending operation.
C22_SessionReplaced ==
    [][Generates
       => /\ status' = "START"
          /\ playerPos' = Origin
          /\ currentStep' = 0
          /\ movesMadeInStep' = 0
          /\ pending' = << PreloadOp >>]_vars

\* The narrations in flight in a queue of pending operations.
NarrationsIn(q) == { i \in 1..Len(q) : q[i].kind = "narration" }

\* The cues of a narration whose turn is over: those before the cue the
\* sequence is at, and that cue too once the sequence has gone into its pause.
CuesOver(op) ==
    { op.cmds[k] : k \in 1..(op.play.idx - 1) }
        \cup (IF op.play.idx >= 1 /\ op.play.phase = "pause" THEN {CueOf(op)} ELSE {})

\* C26: within one narration the cues are voiced in the order of the step's
\* commands, each once: a cue starts only when the cue before it is
\* complete and the pause is over, no cue is voiced when its turn is over,
\* and status goes from LISTENING to MOVING only once the sequence has
\* played its last cue.
C26_CuesInOrderOnce ==
    /\ [](\A i \in NarrationsIn(pending) :
            \A d \in CuesOver(pending[i]) : abandoned[d] # "speech")
    /\ [][/\ \A i \in NarrationsIn(pending) :
                (/\ Len(pending') = Len(pending)
                 /\ pending'[i].play.idx # pending[i].play.idx)
                => /\ pending[i].play.phase = "pause"
                   /\ pending'[i].play.idx = pending[i].play.idx + 1
                   /\ pending'[i].cmds = pending[i].cmds
                   /\ pending'[i].play.phase \in {"audio", "speech"}
          /\ (status = "LISTENING" /\ status' = "MOVING")
                => \E i \in NarrationsIn(pending) :
                      /\ PlayOver(pending[i])
                      /\ pending' = Remove(pending, i)]_vars

\* The number of moves d in a path.
Count(path, d) == Cardinality({ k \in 1..Len(path) : path[k] = d })

\* The attempt has been played by giving the commands of its path in order,
\* every one of them accepted, and has reached SUCCESS.
ReplayedToSuccess ==
    /\ ~gen.running
    /\ status = "SUCCESS"
    /\ ~failed
    /\ fed = Len(fullPath)

Scenario ==
    /\ ~gen.running
    /\ catalog = << [id |-> 1, commandCountPerStep |-> 1, totalSteps |-> 3] >>
    /\ fullPath = << "STRAIGHT", "LEFT", "STRAIGHT" >>
    /\ ~failed

\* The success timer of the accept that completed the last step is pending.
SuccessDue == \E i \in 1..Len(pending) : pending[i].kind = "success"

\* C21: in the worked scenario the inputs STRAIGHT, LEFT, STRAIGHT, one per
\* step, give in turn the pose (0, -5) with rotation 0 and step index 1,
\* the same position with rotation 90 and step index 2, and the position
\* (-5, -5) on the last step, after which status becomes SUCCESS.
C21_WorkedScenario ==
    Scenario
    => /\ fed = 0 => (playerPos = Origin /\ currentStep = 0)
       /\ fed = 1 => (playerPos = [x |-> 0, z |-> -5, rotation |-> 0] /\ currentStep = 1)
       /\ fed = 2 => (playerPos = [x |-> 0, z |-> -5, rotation |-> 90] /\ currentStep = 2)
       /\ fed = 3 => /\ playerPos = [x |-> -5, z |-> -5, rotation |-> 90]
                     /\ currentStep = 2
                     /\ status = "SUCCESS" \/ (status = "MOVING" /\ SuccessDue)
       /\ status = "SUCCESS" => fed = 3

\* C21 witness: the scenario has been played to SUCCESS.
C21_Witness ==
    /\ Scenario
    /\ fed = 3
    /\ status = "SUCCESS"
    /\ playerPos = [x |-> -5, z |-> -5, rotation |-> 90]

====
